---- MODULE Spec2Model ----
(***************************************************************************)
(* Graph assembly of the Xception network                                  *)
(* (src/diagtomodel/xception/xception.py).                                 *)
(*                                                                         *)
(* The graph is the sequence of layer nodes in creation order; a tensor is *)
(* the index of the node that produced it.  Every layer call appends one   *)
(* node.  Spec runs the flow builders (and the module-level assembly);     *)
(* SpecUnit runs one call of convolutional_unit or                         *)
(* separable_convolutional_unit with arbitrary arguments.                  *)
(***************************************************************************)
EXTENDS Integers, Sequences, FiniteSets, TLC

VARIABLES graph, sites, calls, pc, entered, inputs, outputs, res, i, j, err, model

vars == <<graph, sites, calls, pc, entered, inputs, outputs, res, i, j, err, model>>

(***************************************************************************)
(* Bounds of the model.                                                    *)
(***************************************************************************)
MaxDim == 5
MaxChan == 3
MaxFilters == 2

(***************************************************************************)
(* Layer primitives (the Keras layers the module imports), by what the     *)
(* builder relies on: the node they add and the shape of its output.       *)
(***************************************************************************)
Node(op, ins, shape) ==
    [op |-> op, inputs |-> ins, shape |-> shape, filters |-> 0, units |-> 0,
     kernel_size |-> <<>>, strides |-> <<>>, padding |-> "", use_bias |-> FALSE,
     activation |-> ""]

Input(shape) == Node("Input", <<>>, shape)

\* Output size of one spatial dimension: "same" padding gives ceil(d / s).
ConvOutDim(d, k, s, padding) ==
    IF padding = "same" THEN (d + s - 1) \div s
    ELSE IF d >= k THEN (d - k) \div s + 1 ELSE 0

\* Keras normalises kernel_size / strides to a tuple of 2 positive integers.
ValidTuple(t) == Len(t) = 2 /\ \A n \in 1..2 : t[n] > 0

\* What the convolution layers' constructors accept.
ValidConvArgs(filters, kernel_size, strides) ==
    filters > 0 /\ ValidTuple(kernel_size) /\ ValidTuple(strides)

ConvNode(op, g, filters, kernel_size, strides, padding, use_bias, x) ==
    [Node(op, <<x>>,
          <<ConvOutDim(g[x].shape[1], kernel_size[1], strides[1], padding),
            ConvOutDim(g[x].shape[2], kernel_size[2], strides[2], padding),
            filters>>)
     EXCEPT !.filters = filters, !.kernel_size = kernel_size, !.strides = strides,
            !.padding = padding, !.use_bias = use_bias]

Conv2D(g, filters, kernel_size, strides, padding, use_bias, x) ==
    Append(g, ConvNode("Conv2D", g, filters, kernel_size, strides, padding, use_bias, x))

SeparableConv2D(g, filters, kernel_size, strides, padding, use_bias, x) ==
    Append(g, ConvNode("SeparableConv2D", g, filters, kernel_size, strides, padding,
                       use_bias, x))

BatchNormalization(g, x) == Append(g, Node("BatchNormalization", <<x>>, g[x].shape))

Activation(g, kind, x) ==
    Append(g, [Node("Activation", <<x>>, g[x].shape) EXCEPT !.activation = kind])

MaxPool2D(g, pool_size, strides, padding, x) ==
    Append(g, [Node("MaxPool2D", <<x>>,
                    <<ConvOutDim(g[x].shape[1], pool_size[1], strides[1], padding),
                      ConvOutDim(g[x].shape[2], pool_size[2], strides[2], padding),
                      g[x].shape[3]>>)
               EXCEPT !.kernel_size = pool_size, !.strides = strides, !.padding = padding])

\* The merge layer broadcasts a dimension of 1 and rejects any other mismatch.
Compatible(s, t) ==
    Len(s) = Len(t) /\ \A n \in 1..Len(s) : s[n] = t[n] \/ s[n] = 1 \/ t[n] = 1

MergedShape(s, t) == [n \in 1..Len(s) |-> IF s[n] = 1 THEN t[n] ELSE s[n]]

Add(g, a, b) == Append(g, Node("Add", <<a, b>>, MergedShape(g[a].shape, g[b].shape)))

GlobalAveragePooling2D(g, x) ==
    Append(g, Node("GlobalAveragePooling2D", <<x>>, <<g[x].shape[3]>>))

Dense(g, units, x) ==
    Append(g, [Node("Dense", <<x>>, <<units>>) EXCEPT !.units = units, !.use_bias = TRUE])

(***************************************************************************)
(* The result of a call: the graph after it, the tensor it returned (0     *)
(* when it raised) and the exception it raised ("none" when it returned).  *)
(***************************************************************************)
Return(g, out) == [g |-> g, out |-> out, err |-> "none"]
Raise(g) == [g |-> g, out |-> 0, err |-> "ValueError"]

(***************************************************************************)
(* convolutional_unit                                                      *)
(***************************************************************************)
ConvLayersWithDepthwise == {"Conv2D", "SeparableConv2D", "DepthwiseConv2D"}
\* The allow-list of line 31.
ConvLayers == {"Conv2D", "SeparableConv2D"}

\* Defaults of the signature.
ConvStridesDefault == <<1, 1>>
ConvPreActivationDefault == FALSE
ConvPostActivationDefault == TRUE
ConvLayerDefault == "Conv2D"

\* Lines 34-36.
PreActivate(g, conv_inputs, pre_activation) ==
    IF pre_activation THEN Activation(g, "relu", conv_inputs) ELSE g

PostActivateAlways(g, post_activation) == Activation(g, "relu", Len(g))
\* Lines 47-48: the relu on the normalized result.
PostActivate(g, post_activation) ==
    IF post_activation THEN Activation(g, "relu", Len(g)) ELSE g

convolutional_unit(g, conv_inputs, num_filters, kernel_size, strides, pre_activation, post_activation, conv_layer) ==
    IF conv_layer \notin ConvLayers THEN Raise(g)
    ELSE
      LET g1 == PreActivate(g, conv_inputs, pre_activation)
          x1 == IF pre_activation THEN Len(g1) ELSE conv_inputs
      IN  IF conv_layer \in {"Conv2D", "SeparableConv2D"}
             /\ ~ValidConvArgs(num_filters, kernel_size, strides)
          THEN Raise(g1)
          ELSE
            LET g2 == IF conv_layer = "Conv2D"
                        THEN Conv2D(g1, num_filters, kernel_size, strides, "same", FALSE, x1)
                      ELSE IF conv_layer = "SeparableConv2D"
                        THEN SeparableConv2D(g1, num_filters, kernel_size, strides, "same",
                                             FALSE, x1)
                      ELSE g1
                x2 == IF conv_layer \in {"Conv2D", "SeparableConv2D"} THEN Len(g2) ELSE x1
                g3 == BatchNormalization(g2, x2)
                g4 == PostActivate(g3, post_activation)
            IN  Return(g4, Len(g4))

(***************************************************************************)
(* separable_convolutional_unit                                            *)
(***************************************************************************)
SepKernelSize == <<3, 3>>
SepPreActivationNotDefault == FALSE
SepPreActivationDefault == TRUE
SepPostActivationDefault == FALSE

separable_convolutional_unit(g, sep_conv_inputs, num_filters, pre_activation, post_activation) ==
    convolutional_unit(g, sep_conv_inputs, num_filters, SepKernelSize, ConvStridesDefault,
                       pre_activation, post_activation, "SeparableConv2D")

(***************************************************************************)
(* Bookkeeping shared by all actions: the call log and the statement that  *)
(* created each node.                                                      *)
(***************************************************************************)
CallRec(fn, defaults, x, nf, ks, st, pre, post, cl, r) ==
    [fn |-> fn, defaults |-> defaults, site |-> pc, input |-> x, num_filters |-> nf,
     kernel_size |-> ks, strides |-> st, pre_activation |-> pre,
     post_activation |-> post, conv_layer |-> cl, first |-> Len(graph) + 1,
     last |-> Len(r.g), out |-> r.out]

ConvCall(defaults, x, nf, ks, st, pre, post, cl, r) ==
    CallRec("convolutional_unit", defaults, x, nf, ks, st, pre, post, cl, r)

SepCall(defaults, x, nf, pre, post, r) ==
    CallRec("separable_convolutional_unit", defaults, x, nf, SepKernelSize,
            ConvStridesDefault, pre, post, "SeparableConv2D", r)

Extend(s, n, site) == [k \in 1..n |-> IF k <= Len(s) THEN s[k] ELSE site]

\* The effect of a unit call with result r, logged as c.
Called(r, c) ==
    /\ graph' = r.g
    /\ sites' = Extend(sites, Len(r.g), pc)
    /\ calls' = Append(calls, c)
    /\ err' = r.err

\* The effect of a single layer call giving graph g.
Layer(g) ==
    /\ graph' = g
    /\ sites' = Extend(sites, Len(g), pc)
    /\ UNCHANGED <<calls, err>>

Goto(r, next) == IF r.err = "none" THEN next ELSE "raised"

NoModel == [inputs |-> 0, outputs |-> 0, name |-> ""]

(***************************************************************************)
(* SpecUnit: one call of a unit on an input tensor, arguments arbitrary.   *)
(***************************************************************************)
Dims == 1..MaxDim
Channels == 1..MaxChan
FilterCounts == -1..MaxFilters
KernelSizes == {<<1, 1>>, <<3, 3>>, <<1, 3>>, <<3>>, <<3, 3, 3>>, <<0, 3>>, <<3, -1>>}
StrideSizes == {<<1, 1>>, <<2, 2>>, <<1, 2>>, <<2>>, <<0, 1>>}
Variants == {"Conv2D", "SeparableConv2D", "DepthwiseConv2D", "conv2d"}

InitUnit ==
    /\ \E h \in Dims, w \in Dims, c \in Channels : graph = <<Input(<<h, w, c>>)>>
    /\ sites = <<"input">>
    /\ calls = <<>>
    /\ pc = "call"
    /\ entered \in {"convolutional_unit", "separable_convolutional_unit"}
    /\ inputs = 1
    /\ outputs = 0
    /\ res = 0
    /\ i = 0
    /\ j = 0
    /\ err = "none"
    /\ model = NoModel

Finish(r) ==
    /\ pc' = Goto(r, "returned")
    /\ outputs' = r.out
    /\ UNCHANGED <<entered, inputs, res, i, j, model>>

\* convolutional_unit(x, nf, ks, st, pre, post, cl)
ConvUnitCall ==
    /\ pc = "call" /\ entered = "convolutional_unit"
    /\ \E nf \in FilterCounts, ks \in KernelSizes, st \in StrideSizes,
          pre \in BOOLEAN, post \in BOOLEAN, cl \in Variants :
         LET r == convolutional_unit(graph, inputs, nf, ks, st, pre, post, cl)
         IN  Called(r, ConvCall(FALSE, inputs, nf, ks, st, pre, post, cl, r)) /\ Finish(r)

\* convolutional_unit(x, nf, ks): every optional argument left to its default
ConvUnitCallDefault ==
    /\ pc = "call" /\ entered = "convolutional_unit"
    /\ \E nf \in FilterCounts, ks \in KernelSizes :
         LET r == convolutional_unit(graph, inputs, nf, ks, ConvStridesDefault,
                                     ConvPreActivationDefault, ConvPostActivationDefault,
                                     ConvLayerDefault)
         IN  Called(r, ConvCall(TRUE, inputs, nf, ks, ConvStridesDefault,
                                ConvPreActivationDefault, ConvPostActivationDefault,
                                ConvLayerDefault, r))
             /\ Finish(r)

\* separable_convolutional_unit(x, nf, pre_activation=pre, post_activation=post)
SepConvUnitCall ==
    /\ pc = "call" /\ entered = "separable_convolutional_unit"
    /\ \E nf \in FilterCounts, pre \in BOOLEAN, post \in BOOLEAN :
         LET r == separable_convolutional_unit(graph, inputs, nf, pre, post)
         IN  Called(r, SepCall(FALSE, inputs, nf, pre, post, r)) /\ Finish(r)

\* separable_convolutional_unit(x, nf): no activation overrides
SepConvUnitCallDefault ==
    /\ pc = "call" /\ entered = "separable_convolutional_unit"
    /\ \E nf \in FilterCounts :
         LET r == separable_convolutional_unit(graph, inputs, nf, SepPreActivationDefault,
                                               SepPostActivationDefault)
         IN  Called(r, SepCall(TRUE, inputs, nf, SepPreActivationDefault,
                               SepPostActivationDefault, r))
             /\ Finish(r)

NextUnit == ConvUnitCall \/ ConvUnitCallDefault \/ SepConvUnitCall \/ SepConvUnitCallDefault

SpecUnit == InitUnit /\ [][NextUnit]_vars

(***************************************************************************)
(* The literals of the flow builders and of the module-level assembly.     *)
(***************************************************************************)
ImageSize == 299
ImageChannels == 3

Stem1Filters == 32
Stem2Filters == 64
StemKernelSize == <<3, 3>>
Stem1StridesOne == <<1, 1>>
Stem1Strides == <<2, 2>>

EntryFiltersWith512 == <<128, 256, 512>>
EntryFilters == <<128, 256, 728>>
EntryDepth == 2
EntryResKernelSize == <<1, 1>>
EntryResStrides == <<2, 2>>
EntryResPostActivation == FALSE
EntryPoolSize == <<3, 3>>
EntryPoolStrides == <<2, 2>>
EntryPoolPaddingValid == "valid"
EntryPoolPadding == "same"

MiddleBlocksPlusOne == 8 + 1
MiddleBlocks == 8
MiddleDepthTwo == 3 - 1
MiddleDepth == 3
MiddleFilters == 728

ExitResFilters == 1024
ExitResKernelSize == <<1, 1>>
ExitResStrides == <<2, 2>>
ExitResPostActivation == FALSE
ExitFilters == <<728, 1024>>
ExitPoolSize == <<3, 3>>
ExitPoolStrides == <<2, 2>>
ExitPoolPadding == "same"
ExitTailFilters == <<1536, 2048>>
ExitTailPreActivationOn == TRUE
ExitTailPreActivation == FALSE
ExitTailPostActivation == TRUE
DenseUnits == 2048
Classes == 1000

(***************************************************************************)
(* Spec: the flow builders, one action per statement.  A behaviour is      *)
(* either the module-level assembly (entered = "model", lines 140-149) or  *)
(* one call of a flow builder on an input tensor.                          *)
(***************************************************************************)
Init ==
    /\ \/ /\ entered = "model"
          /\ graph = <<Input(<<ImageSize, ImageSize, ImageChannels>>)>>
          /\ pc = "entry_stem1"
       \/ /\ entered = "entry_flow"
          /\ \E h \in Dims, w \in Dims, c \in Channels : graph = <<Input(<<h, w, c>>)>>
          /\ pc = "entry_stem1"
       \/ /\ entered = "middle_flow"
          /\ \E h \in Dims, w \in Dims : graph = <<Input(<<h, w, MiddleFilters>>)>>
          /\ pc = "middle_begin"
       \/ /\ entered = "exit_flow"
          /\ \E h \in Dims, w \in Dims : graph = <<Input(<<h, w, MiddleFilters>>)>>
          /\ pc = "exit_res"
    /\ sites = <<"input">>
    /\ calls = <<>>
    /\ inputs = 1
    /\ outputs = 0
    /\ res = 0
    /\ i = 0
    /\ j = 0
    /\ err = "none"
    /\ model = NoModel

\* A merge of tensors a and b: the Add node, or the layer's ValueError.
Merge(a, b, next) ==
    IF Compatible(graph[a].shape, graph[b].shape)
    THEN /\ Layer(Add(graph, a, b))
         /\ outputs' = Len(graph) + 1
         /\ pc' = next
    ELSE /\ err' = "ValueError"
         /\ pc' = "raised"
         /\ UNCHANGED <<graph, sites, calls, outputs>>

(* entry_flow *)

\* line 76
EntryStem1 ==
    /\ pc = "entry_stem1"
    /\ LET r == convolutional_unit(graph, inputs, Stem1Filters, StemKernelSize, Stem1Strides,
                                   ConvPreActivationDefault, ConvPostActivationDefault,
                                   ConvLayerDefault)
       IN  /\ Called(r, ConvCall(FALSE, inputs, Stem1Filters, StemKernelSize, Stem1Strides,
                                 ConvPreActivationDefault, ConvPostActivationDefault,
                                 ConvLayerDefault, r))
           /\ outputs' = r.out
           /\ pc' = Goto(r, "entry_stem2")
    /\ UNCHANGED <<entered, inputs, res, i, j, model>>

\* line 77
EntryStem2 ==
    /\ pc = "entry_stem2"
    /\ LET r == convolutional_unit(graph, outputs, Stem2Filters, StemKernelSize,
                                   ConvStridesDefault, ConvPreActivationDefault,
                                   ConvPostActivationDefault, ConvLayerDefault)
       IN  /\ Called(r, ConvCall(TRUE, outputs, Stem2Filters, StemKernelSize,
                                 ConvStridesDefault, ConvPreActivationDefault,
                                 ConvPostActivationDefault, ConvLayerDefault, r))
           /\ outputs' = r.out
           /\ pc' = Goto(r, "entry_for")
    /\ UNCHANGED <<entered, inputs, res, i, j, model>>

\* line 80: for num_filters in [128, 256, 728]
EntryFor ==
    /\ pc = "entry_for"
    /\ IF i < Len(EntryFilters)
       THEN i' = i + 1 /\ pc' = "entry_res"
       ELSE i' = i /\ pc' = "entry_return"
    /\ UNCHANGED <<graph, sites, calls, entered, inputs, outputs, res, j, err, model>>

\* line 81
EntryRes ==
    /\ pc = "entry_res"
    /\ LET r == convolutional_unit(graph, outputs, EntryFilters[i], EntryResKernelSize,
                                   EntryResStrides, ConvPreActivationDefault,
                                   EntryResPostActivation, ConvLayerDefault)
       IN  /\ Called(r, ConvCall(FALSE, outputs, EntryFilters[i], EntryResKernelSize,
                                 EntryResStrides, ConvPreActivationDefault,
                                 EntryResPostActivation, ConvLayerDefault, r))
           /\ res' = r.out
           /\ pc' = Goto(r, "entry_sep_for")
    /\ j' = 0
    /\ UNCHANGED <<entered, inputs, outputs, i, model>>

\* line 82: for _ in range(2)
EntrySepFor ==
    /\ pc = "entry_sep_for"
    /\ IF j < EntryDepth
       THEN j' = j + 1 /\ pc' = "entry_sep"
       ELSE j' = j /\ pc' = "entry_pool"
    /\ UNCHANGED <<graph, sites, calls, entered, inputs, outputs, res, i, err, model>>

\* line 83
EntrySep ==
    /\ pc = "entry_sep"
    /\ LET r == separable_convolutional_unit(graph, outputs, EntryFilters[i],
                                             SepPreActivationDefault,
                                             SepPostActivationDefault)
       IN  /\ Called(r, SepCall(TRUE, outputs, EntryFilters[i], SepPreActivationDefault,
                                SepPostActivationDefault, r))
           /\ outputs' = r.out
           /\ pc' = Goto(r, "entry_sep_for")
    /\ UNCHANGED <<entered, inputs, res, i, j, model>>

\* line 84
EntryPool ==
    /\ pc = "entry_pool"
    /\ Layer(MaxPool2D(graph, EntryPoolSize, EntryPoolStrides, EntryPoolPadding, outputs))
    /\ outputs' = Len(graph) + 1
    /\ pc' = "entry_add"
    /\ UNCHANGED <<entered, inputs, res, i, j, model>>

\* line 85
EntryAdd ==
    /\ pc = "entry_add"
    /\ Merge(res, outputs, "entry_for")
    /\ UNCHANGED <<entered, inputs, res, i, j, model>>

\* line 86, and lines 143-145 of the assembly
EntryReturn ==
    /\ pc = "entry_return"
    /\ IF entered = "model"
       THEN inputs' = outputs /\ pc' = "middle_begin"
       ELSE inputs' = inputs /\ pc' = "done"
    /\ UNCHANGED <<graph, sites, calls, entered, outputs, res, i, j, err, model>>

(* middle_flow *)

\* line 98
MiddleBegin ==
    /\ pc = "middle_begin"
    /\ outputs' = inputs
    /\ i' = 0
    /\ pc' = "middle_for"
    /\ UNCHANGED <<graph, sites, calls, entered, inputs, res, j, err, model>>

\* line 99: for _ in range(8)
MiddleFor ==
    /\ pc = "middle_for"
    /\ IF i < MiddleBlocks
       THEN i' = i + 1 /\ pc' = "middle_res"
       ELSE i' = i /\ pc' = "middle_return"
    /\ UNCHANGED <<graph, sites, calls, entered, inputs, outputs, res, j, err, model>>

\* line 100
MiddleRes ==
    /\ pc = "middle_res"
    /\ res' = outputs
    /\ j' = 0
    /\ pc' = "middle_sep_for"
    /\ UNCHANGED <<graph, sites, calls, entered, inputs, outputs, i, err, model>>

\* line 101: for _ in range(3)
MiddleSepFor ==
    /\ pc = "middle_sep_for"
    /\ IF j < MiddleDepth
       THEN j' = j + 1 /\ pc' = "middle_sep"
       ELSE j' = j /\ pc' = "middle_add"
    /\ UNCHANGED <<graph, sites, calls, entered, inputs, outputs, res, i, err, model>>

\* line 102
MiddleSep ==
    /\ pc = "middle_sep"
    /\ LET r == separable_convolutional_unit(graph, outputs, MiddleFilters,
                                             SepPreActivationDefault,
                                             SepPostActivationDefault)
       IN  /\ Called(r, SepCall(TRUE, outputs, MiddleFilters, SepPreActivationDefault,
                                SepPostActivationDefault, r))
           /\ outputs' = r.out
           /\ pc' = Goto(r, "middle_sep_for")
    /\ UNCHANGED <<entered, inputs, res, i, j, model>>

\* line 103
MiddleAdd ==
    /\ pc = "middle_add"
    /\ Merge(res, outputs, "middle_for")
    /\ UNCHANGED <<entered, inputs, res, i, j, model>>

\* line 104, and lines 145-147 of the assembly
MiddleReturn ==
    /\ pc = "middle_return"
    /\ IF entered = "model"
       THEN inputs' = outputs /\ pc' = "exit_res"
       ELSE inputs' = inputs /\ pc' = "done"
    /\ UNCHANGED <<graph, sites, calls, entered, outputs, res, i, j, err, model>>

(* exit_flow *)

\* line 116
ExitRes ==
    /\ pc = "exit_res"
    /\ LET r == convolutional_unit(graph, inputs, ExitResFilters, ExitResKernelSize,
                                   ExitResStrides, ConvPreActivationDefault,
                                   ExitResPostActivation, ConvLayerDefault)
       IN  /\ Called(r, ConvCall(FALSE, inputs, ExitResFilters, ExitResKernelSize,
                                 ExitResStrides, ConvPreActivationDefault,
                                 ExitResPostActivation, ConvLayerDefault, r))
           /\ res' = r.out
           /\ pc' = Goto(r, "exit_main")
    /\ UNCHANGED <<entered, inputs, outputs, i, j, model>>

\* line 117
ExitMain ==
    /\ pc = "exit_main"
    /\ outputs' = inputs
    /\ i' = 0
    /\ pc' = "exit_sep_for"
    /\ UNCHANGED <<graph, sites, calls, entered, inputs, res, j, err, model>>

\* line 118: for num_filters in [728, 1024]
ExitSepFor ==
    /\ pc = "exit_sep_for"
    /\ IF i < Len(ExitFilters)
       THEN i' = i + 1 /\ pc' = "exit_sep"
       ELSE i' = i /\ pc' = "exit_pool"
    /\ UNCHANGED <<graph, sites, calls, entered, inputs, outputs, res, j, err, model>>

\* line 119
ExitSep ==
    /\ pc = "exit_sep"
    /\ LET r == separable_convolutional_unit(graph, outputs, ExitFilters[i],
                                             SepPreActivationDefault,
                                             SepPostActivationDefault)
       IN  /\ Called(r, SepCall(TRUE, outputs, ExitFilters[i], SepPreActivationDefault,
                                SepPostActivationDefault, r))
           /\ outputs' = r.out
           /\ pc' = Goto(r, "exit_sep_for")
    /\ UNCHANGED <<entered, inputs, res, i, j, model>>

\* line 120
ExitPool ==
    /\ pc = "exit_pool"
    /\ Layer(MaxPool2D(graph, ExitPoolSize, ExitPoolStrides, ExitPoolPadding, outputs))
    /\ outputs' = Len(graph) + 1
    /\ pc' = "exit_add"
    /\ UNCHANGED <<entered, inputs, res, i, j, model>>

\* line 121
ExitAdd ==
    /\ pc = "exit_add"
    /\ Merge(res, outputs, "exit_tail_for")
    /\ i' = 0
    /\ UNCHANGED <<entered, inputs, res, j, model>>

\* line 122: for num_filters in [1536, 2048]
ExitTailFor ==
    /\ pc = "exit_tail_for"
    /\ IF i < Len(ExitTailFilters)
       THEN i' = i + 1 /\ pc' = "exit_tail"
       ELSE i' = i /\ pc' = "exit_gap"
    /\ UNCHANGED <<graph, sites, calls, entered, inputs, outputs, res, j, err, model>>

\* lines 123-124
ExitTail ==
    /\ pc = "exit_tail"
    /\ LET r == separable_convolutional_unit(graph, outputs, ExitTailFilters[i],
                                             ExitTailPreActivation, ExitTailPostActivation)
       IN  /\ Called(r, SepCall(FALSE, outputs, ExitTailFilters[i], ExitTailPreActivation,
                                ExitTailPostActivation, r))
           /\ outputs' = r.out
           /\ pc' = Goto(r, "exit_tail_for")
    /\ UNCHANGED <<entered, inputs, res, i, j, model>>

\* line 127
ExitGlobalPool ==
    /\ pc = "exit_gap"
    /\ Layer(GlobalAveragePooling2D(graph, outputs))
    /\ outputs' = Len(graph) + 1
    /\ pc' = "exit_dense1"
    /\ UNCHANGED <<entered, inputs, res, i, j, model>>

\* line 130
ExitDense1 ==
    /\ pc = "exit_dense1"
    /\ Layer(Dense(graph, DenseUnits, outputs))
    /\ outputs' = Len(graph) + 1
    /\ pc' = "exit_relu"
    /\ UNCHANGED <<entered, inputs, res, i, j, model>>

\* line 131
ExitRelu ==
    /\ pc = "exit_relu"
    /\ Layer(Activation(graph, "relu", outputs))
    /\ outputs' = Len(graph) + 1
    /\ pc' = "exit_dense2"
    /\ UNCHANGED <<entered, inputs, res, i, j, model>>

\* line 134
ExitDense2 ==
    /\ pc = "exit_dense2"
    /\ Layer(Dense(graph, Classes, outputs))
    /\ outputs' = Len(graph) + 1
    /\ pc' = "exit_softmax"
    /\ UNCHANGED <<entered, inputs, res, i, j, model>>

\* line 135
ExitSoftmax ==
    /\ pc = "exit_softmax"
    /\ Layer(Activation(graph, "softmax", outputs))
    /\ outputs' = Len(graph) + 1
    /\ pc' = "exit_return"
    /\ UNCHANGED <<entered, inputs, res, i, j, model>>

\* line 137, and line 147 of the assembly
ExitReturn ==
    /\ pc = "exit_return"
    /\ pc' = IF entered = "model" THEN "build_model" ELSE "done"
    /\ UNCHANGED <<graph, sites, calls, entered, inputs, outputs, res, i, j, err, model>>

\* line 149
BuildModel ==
    /\ pc = "build_model"
    /\ model' = [inputs |-> 1, outputs |-> outputs, name |-> "Xception"]
    /\ pc' = "done"
    /\ UNCHANGED <<graph, sites, calls, entered, inputs, outputs, res, i, j, err>>

Next ==
    \/ EntryStem1 \/ EntryStem2 \/ EntryFor \/ EntryRes \/ EntrySepFor \/ EntrySep
    \/ EntryPool \/ EntryAdd \/ EntryReturn
    \/ MiddleBegin \/ MiddleFor \/ MiddleRes \/ MiddleSepFor \/ MiddleSep \/ MiddleAdd
    \/ MiddleReturn
    \/ ExitRes \/ ExitMain \/ ExitSepFor \/ ExitSep \/ ExitPool \/ ExitAdd \/ ExitTailFor
    \/ ExitTail \/ ExitGlobalPool \/ ExitDense1 \/ ExitRelu \/ ExitDense2 \/ ExitSoftmax
    \/ ExitReturn \/ BuildModel

Spec == Init /\ [][Next]_vars

(***************************************************************************)
(* Properties.                                                             *)
(***************************************************************************)
Supported == {"Conv2D", "SeparableConv2D"}

\* The step of SpecUnit in which the call is made.
UnitStep == pc = "call" /\ pc' # "call"

\* C1: a call of convolutional_unit whose conv_layer is neither "Conv2D" nor
\* "SeparableConv2D" raises ValueError, whatever the other arguments
\* (pre_activation=True included), and adds no node to the graph.
C1_UnsupportedVariantRaises ==
    [][(UnitStep /\ calls'[1].conv_layer \notin Supported)
          => /\ pc' = "raised"
             /\ err' = "ValueError"
             /\ outputs' = 0
             /\ graph' = graph]_vars

C1_Witness ==
    /\ pc = "raised"
    /\ Len(calls) = 1
    /\ calls[1].conv_layer = "DepthwiseConv2D"
    /\ calls[1].pre_activation
    /\ calls[1].num_filters > 0
    /\ Len(graph) = 1

\* C2: a call of convolutional_unit with a supported conv_layer and a
\* non-positive filter count or a malformed kernel_size/strides tuple raises
\* ValueError at that call and leaves the graph exactly as it was before the
\* call, also when pre_activation=True.
C2_InvalidArgsLeaveGraphUntouched ==
    [][(/\ UnitStep
        /\ calls'[1].conv_layer \in Supported
        /\ ~ValidConvArgs(calls'[1].num_filters, calls'[1].kernel_size, calls'[1].strides))
          => /\ pc' = "raised"
             /\ err' = "ValueError"
             /\ graph' = graph]_vars

\* The nodes a statement created, in creation order.
NodesAt(site) == {n \in 1..Len(graph) : sites[n] = site}
AddsAt(site) == {n \in NodesAt(site) : graph[n].op = "Add"}
Kth(S, k) == CHOOSE n \in S : Cardinality({m \in S : m < n}) = k - 1
CallsAt(site) == SelectSeq(calls, LAMBDA c : c.site = site)
Half(d) == (d + 1) \div 2

\* C3: at every Add node of the three flows both operands have the same shape
\* and no merge ever fails, for every input height and width: in the entry
\* blocks and the exit block the 1x1 stride-2 projection and the 3x3 stride-2
\* max-pool both give ceil(h/2) x ceil(w/2) x filters of the block input, and
\* the middle blocks add two tensors of the block's input shape.
C3_ResidualShapesAgree ==
    /\ pc # "raised"
    /\ err = "none"
    /\ \A n \in 1..Len(graph) :
         graph[n].op = "Add" =>
           LET r == graph[n].inputs[1]
               m == graph[n].inputs[2]
           IN  /\ graph[r].shape = graph[m].shape
               /\ graph[n].shape = graph[r].shape
               /\ sites[n] \in {"entry_add", "exit_add"} =>
                    LET conv == graph[r].inputs[1]
                        b == graph[conv].inputs[1]
                    IN  /\ graph[m].op = "MaxPool2D"
                        /\ graph[conv].op = "Conv2D"
                        /\ graph[m].shape = <<Half(graph[b].shape[1]),
                                              Half(graph[b].shape[2]),
                                              graph[conv].filters>>
               /\ sites[n] = "middle_add" => graph[r].shape[3] = 728

C3_Witness ==
    /\ pc = "done"
    /\ entered = "entry_flow"
    /\ graph[1].shape[1] = 5
    /\ graph[1].shape[2] = 2
    /\ Cardinality(AddsAt("entry_add")) = 3

\* C4: middle_flow returns a tensor of the shape of its input, creates exactly
\* 8 Add nodes and makes exactly 24 calls of separable_convolutional_unit (3
\* per block, 728 filters, pre-activation on, post-activation off); the first
\* operand of each Add is the block's input, taken before the block's first
\* relu, and each sum is the input of the next block.
C4_MiddleFlow ==
    (pc = "done" /\ entered \in {"middle_flow", "model"}) =>
      LET MC == CallsAt("middle_sep")
          MA == AddsAt("middle_add")
          in0 == MC[1].input
      IN  /\ Len(MC) = 24
          /\ Cardinality(MA) = 8
          /\ NodesAt("middle_add") = MA
          /\ entered = "middle_flow" => in0 = 1 /\ outputs = Kth(MA, 8)
          /\ graph[Kth(MA, 8)].shape = graph[in0].shape
          /\ \A c \in 1..24 :
               /\ MC[c].fn = "separable_convolutional_unit"
               /\ MC[c].num_filters = 728
               /\ MC[c].pre_activation /\ ~MC[c].post_activation
               /\ MC[c].last = MC[c].first + 2
               /\ graph[MC[c].first].op = "Activation"
               /\ graph[MC[c].first].inputs = <<MC[c].input>>
               /\ graph[MC[c].first + 1].op = "SeparableConv2D"
               /\ graph[MC[c].first + 1].filters = 728
          /\ \A k \in 1..8 :
               LET a == Kth(MA, k)
                   blockIn == IF k = 1 THEN in0 ELSE Kth(MA, k - 1)
               IN  /\ MC[3 * k - 2].input = blockIn
                   /\ MC[3 * k - 1].input = MC[3 * k - 2].out
                   /\ MC[3 * k].input = MC[3 * k - 1].out
                   /\ graph[a].inputs = <<blockIn, MC[3 * k].out>>
                   /\ blockIn < MC[3 * k - 2].first
                   /\ graph[a].shape = graph[in0].shape

C4_Witness ==
    /\ pc = "done"
    /\ entered = "middle_flow"
    /\ graph[1].shape = <<2, 5, 728>>
    /\ Cardinality(AddsAt("middle_add")) = 8

\* C5: entry_flow creates exactly 3 Add nodes; the first operand of the k-th
\* is the batch normalization (no relu before or after) of a Conv2D 1x1
\* stride 2 of the block's input with 128, 256, 728 filters for k = 1, 2, 3;
\* the second is the 3x3 stride-2 "same" max-pool of two default separable
\* units of the same filter count applied to that block input; and each sum
\* is the input of the next block.
C5_EntryFlow ==
    (pc = "done" /\ entered \in {"entry_flow", "model"}) =>
      LET EA == AddsAt("entry_add")
          ES == CallsAt("entry_sep")
          F == <<128, 256, 728>>
      IN  /\ Cardinality(EA) = 3
          /\ NodesAt("entry_add") = EA
          /\ Len(ES) = 6
          /\ entered = "entry_flow" => outputs = Kth(EA, 3)
          /\ \A k \in 1..3 :
               LET a == Kth(EA, k)
                   r == graph[a].inputs[1]
                   m == graph[a].inputs[2]
                   conv == graph[r].inputs[1]
                   blockIn == IF k = 1 THEN CallsAt("entry_stem2")[1].out
                              ELSE Kth(EA, k - 1)
               IN  /\ Len(graph[a].inputs) = 2
                   /\ graph[r].op = "BatchNormalization"
                   /\ graph[conv].op = "Conv2D"
                   /\ graph[conv].kernel_size = <<1, 1>>
                   /\ graph[conv].strides = <<2, 2>>
                   /\ graph[conv].filters = F[k]
                   /\ graph[conv].inputs = <<blockIn>>
                   /\ graph[r].shape[3] = F[k]
                   /\ graph[m].op = "MaxPool2D"
                   /\ graph[m].kernel_size = <<3, 3>>
                   /\ graph[m].strides = <<2, 2>>
                   /\ graph[m].padding = "same"
                   /\ graph[m].inputs = <<ES[2 * k].out>>
                   /\ ES[2 * k].input = ES[2 * k - 1].out
                   /\ ES[2 * k - 1].input = blockIn
                   /\ \A c \in {2 * k - 1, 2 * k} :
                        /\ ES[c].fn = "separable_convolutional_unit"
                        /\ ES[c].num_filters = F[k]
                        /\ ES[c].pre_activation /\ ~ES[c].post_activation
                        /\ graph[ES[c].first].op = "Activation"
                        /\ graph[ES[c].out].op = "BatchNormalization"

C5_Witness ==
    /\ pc = "done"
    /\ entered = "entry_flow"
    /\ Cardinality(AddsAt("entry_add")) = 3
    /\ graph[Kth(AddsAt("entry_add"), 3)].shape[3] = 728

SepCalls == SelectSeq(calls, LAMBDA c : c.fn = "separable_convolutional_unit")

\* C6: in the complete model exactly two separable units have
\* pre_activation=False and post_activation=True: the last two of exit_flow,
\* with 1536 then 2048 filters, after the exit Add; each of the other 32 (6 in
\* the entry flow, 24 in the middle flow, 2 in the exit flow before the
\* max-pool) has pre_activation=True and post_activation=False.
C6_ActivationPlacement ==
    /\ \A c \in 1..Len(SepCalls) :
         LET u == SepCalls[c]
         IN  IF u.site = "exit_tail"
             THEN /\ ~u.pre_activation /\ u.post_activation
                  /\ graph[u.first].op = "SeparableConv2D"
                  /\ graph[u.out].op = "Activation"
             ELSE /\ u.pre_activation /\ ~u.post_activation
                  /\ u.defaults
                  /\ graph[u.first].op = "Activation"
                  /\ graph[u.out].op = "BatchNormalization"
    /\ (pc = "done" /\ entered = "model") =>
         /\ Len(SepCalls) = 34
         /\ Len(CallsAt("entry_sep")) = 6
         /\ Len(CallsAt("middle_sep")) = 24
         /\ Len(CallsAt("exit_sep")) = 2
         /\ Len(CallsAt("exit_tail")) = 2
         /\ SepCalls[33].site = "exit_tail" /\ SepCalls[33].num_filters = 1536
         /\ SepCalls[34].site = "exit_tail" /\ SepCalls[34].num_filters = 2048
         /\ SepCalls[33].input = Kth(AddsAt("exit_add"), 1)
         /\ SepCalls[34].input = SepCalls[33].out
         /\ \A c \in 1..32 : SepCalls[c].site # "exit_tail"
         /\ CallsAt("exit_sep")[2].last < Kth(NodesAt("exit_pool"), 1)

C6_Witness ==
    /\ pc = "done"
    /\ entered = "model"
    /\ Len(SepCalls) = 34
    /\ ~SepCalls[34].pre_activation
    /\ SepCalls[34].post_activation

\* C7: for the declared 299 x 299 x 3 input the assembly runs entry_flow,
\* middle_flow and exit_flow in that order; the entry flow's output has shape
\* 19 x 19 x 728, the middle flow's output the same, the global average pool
\* gives 2048, and the model's output, after Dense(2048), relu, Dense(1000)
\* and softmax in that order, has shape 1000.
C7_ModelShapes ==
    (pc = "done" /\ entered = "model") =>
      LET entryOut == Kth(AddsAt("entry_add"), 3)
          middleOut == Kth(AddsAt("middle_add"), 8)
          n == Len(graph)
      IN  /\ graph[1].op = "Input"
          /\ graph[1].shape = <<299, 299, 3>>
          /\ graph[entryOut].shape = <<19, 19, 728>>
          /\ graph[middleOut].shape = <<19, 19, 728>>
          /\ CallsAt("entry_stem1")[1].input = 1
          /\ CallsAt("middle_sep")[1].input = entryOut
          /\ CallsAt("exit_res")[1].input = middleOut
          /\ CallsAt("exit_sep")[1].input = middleOut
          /\ entryOut < middleOut
          /\ \A a \in 1..n, b \in 1..n :
               (a < b) =>
                 /\ ~(sites[a] \in {"middle_sep", "middle_add"}
                      /\ sites[b] \in {"entry_stem1", "entry_stem2", "entry_res",
                                       "entry_sep", "entry_pool", "entry_add"})
                 /\ ~(sites[a] \in {"exit_res", "exit_sep", "exit_pool", "exit_add",
                                    "exit_tail"}
                      /\ sites[b] \in {"middle_sep", "middle_add"})
          /\ graph[n - 4].op = "GlobalAveragePooling2D"
          /\ graph[n - 4].inputs = <<CallsAt("exit_tail")[2].out>>
          /\ graph[graph[n - 4].inputs[1]].shape = <<10, 10, 2048>>
          /\ graph[n - 4].shape = <<2048>>
          /\ graph[n - 3].op = "Dense" /\ graph[n - 3].units = 2048
          /\ graph[n - 3].inputs = <<n - 4>>
          /\ graph[n - 2].op = "Activation" /\ graph[n - 2].activation = "relu"
          /\ graph[n - 2].inputs = <<n - 3>>
          /\ graph[n - 1].op = "Dense" /\ graph[n - 1].units = 1000
          /\ graph[n - 1].inputs = <<n - 2>>
          /\ graph[n].op = "Activation" /\ graph[n].activation = "softmax"
          /\ graph[n].inputs = <<n - 1>>
          /\ graph[n].shape = <<1000>>
          /\ model = [inputs |-> 1, outputs |-> n, name |-> "Xception"]

C7_Witness ==
    /\ pc = "done"
    /\ entered = "model"
    /\ model.name = "Xception"
    /\ graph[model.outputs].activation = "softmax"

\* C8: the complete model holds exactly 12 Add nodes: 3 created by the entry
\* flow, 8 by the middle flow and 1 by the exit flow, and none created
\* anywhere else.
C8_TwelveAdds ==
    /\ \A n \in 1..Len(graph) :
         graph[n].op = "Add" => sites[n] \in {"entry_add", "middle_add", "exit_add"}
    /\ (pc = "done" /\ entered = "model") =>
         /\ Cardinality({n \in 1..Len(graph) : graph[n].op = "Add"}) = 12
         /\ Cardinality(AddsAt("entry_add")) = 3
         /\ Cardinality(AddsAt("middle_add")) = 8
         /\ Cardinality(AddsAt("exit_add")) = 1

C8_Witness ==
    /\ pc = "done"
    /\ entered = "model"
    /\ Cardinality({n \in 1..Len(graph) : graph[n].op = "Add"}) = 12

\* The nodes a successful call c must have added to the graph before, giving
\* graph g and returning tensor out.
UnitNodes(before, g, c, out) ==
    LET n0 == Len(before) + 1
        convAt == IF c.pre_activation THEN n0 + 1 ELSE n0
        bnAt == convAt + 1
        lastAt == IF c.post_activation THEN bnAt + 1 ELSE bnAt
        x == g[c.input].shape
    IN  /\ Len(g) = lastAt
        /\ SubSeq(g, 1, Len(before)) = before
        /\ out = lastAt
        /\ c.pre_activation =>
             /\ g[n0].op = "Activation" /\ g[n0].activation = "relu"
             /\ g[n0].inputs = <<c.input>>
        /\ g[convAt].op = c.conv_layer
        /\ g[convAt].inputs = <<IF c.pre_activation THEN n0 ELSE c.input>>
        /\ g[convAt].filters = c.num_filters
        /\ g[convAt].kernel_size = c.kernel_size
        /\ g[convAt].strides = c.strides
        /\ g[convAt].padding = "same"
        /\ g[convAt].use_bias = FALSE
        /\ g[bnAt].op = "BatchNormalization"
        /\ g[bnAt].inputs = <<convAt>>
        /\ c.post_activation =>
             /\ g[lastAt].op = "Activation" /\ g[lastAt].activation = "relu"
             /\ g[lastAt].inputs = <<bnAt>>
        /\ g[out].shape = <<(x[1] + c.strides[1] - 1) \div c.strides[1],
                            (x[2] + c.strides[2] - 1) \div c.strides[2],
                            c.num_filters>>

\* C9: a successful call of convolutional_unit adds, in this order and nothing
\* else: a relu on the input iff pre_activation; one convolution of the chosen
\* kind with the given filters, kernel size and strides, "same" padding and no
\* bias; one batch normalization of its result; a relu on that iff
\* post_activation; and returns the last node, whose channel count is filters.
C9_UnitNodes ==
    [][(UnitStep /\ pc' = "returned")
          => UnitNodes(graph, graph', calls'[1], outputs')]_vars

C9_Witness ==
    /\ pc = "returned"
    /\ entered = "convolutional_unit"
    /\ calls[1].pre_activation
    /\ ~calls[1].post_activation
    /\ calls[1].strides = <<1, 2>>
    /\ calls[1].conv_layer = "Conv2D"
    /\ Len(graph) = 4

\* C10: separable_convolutional_unit is convolutional_unit with kernel 3x3,
\* strides 1x1 and conv_layer "SeparableConv2D"; called without activation
\* overrides it uses pre_activation=True and post_activation=False, generating
\* exactly relu, separable convolution, batch normalization; explicit flags are
\* forwarded unchanged.
C10_SepUnitIsConvUnit ==
    [][(UnitStep /\ entered = "separable_convolutional_unit")
          => LET c == calls'[1]
                 pre == IF c.defaults THEN TRUE ELSE c.pre_activation
                 post == IF c.defaults THEN FALSE ELSE c.post_activation
                 r == convolutional_unit(graph, c.input, c.num_filters, <<3, 3>>, <<1, 1>>,
                                         pre, post, "SeparableConv2D")
             IN  /\ graph' = r.g
                 /\ outputs' = r.out
                 /\ err' = r.err
                 /\ (c.defaults /\ pc' = "returned") =>
                      /\ Len(graph') = Len(graph) + 3
                      /\ graph'[Len(graph) + 1].op = "Activation"
                      /\ graph'[Len(graph) + 1].activation = "relu"
                      /\ graph'[Len(graph) + 2].op = "SeparableConv2D"
                      /\ graph'[Len(graph) + 2].kernel_size = <<3, 3>>
                      /\ graph'[Len(graph) + 2].strides = <<1, 1>>
                      /\ graph'[Len(graph) + 3].op = "BatchNormalization"
                      /\ outputs' = Len(graph) + 3]_vars

C10_Witness ==
    /\ pc = "returned"
    /\ entered = "separable_convolutional_unit"
    /\ calls[1].defaults
    /\ Len(graph) = 4
    /\ graph[2].op = "Activation"
    /\ graph[4].op = "BatchNormalization"

====
